---- MODULE Spec2Model ----
(***************************************************************************)
(* Query orchestration, result fusion and document ingestion of the       *)
(* semantic search API: src/api/controllers/search.controller.js           *)
(* (semanticSearch, hybridSearch, highlightQuery, hybridReranking),        *)
(* document.controller.js and mcp.controller.js (the document handlers).   *)
(*                                                                         *)
(* Scores are integers.  The weights 0.7 and 0.3 of hybridReranking are    *)
(* kept in tenths (Wsem = 7, Wkw = 3), so the `score` field of a fused     *)
(* entry is ten times the value the JavaScript computes.  For input scores *)
(* in 0..6 two combined scores 7*s + 3*k are equal only when (s, k) are    *)
(* equal, so the order of the doubles and the order of the integers agree. *)
(***************************************************************************)
EXTENDS Integers, Sequences, FiniteSets, TLC

VARIABLES
    fsem,       \* hybridReranking: argument semanticResults
    fkw,        \* hybridReranking: argument keywordResults
    flimit,     \* hybridReranking: argument limit
    fpc,        \* "input" before the call, "done" after it
    ranked,     \* hybridReranking: the array after .sort(), before .slice()
    fused,      \* hybridReranking: the returned array
    reqs,       \* per request: its body, the handler's position and locals, the
                \* backend calls issued and their answers, and what was sent
                \* through res and next
    moduleScope, \* the assignable bindings of the module scope of
                \* search.controller.js, one for all requests
    htext,      \* highlightQuery: argument text
    hquery,     \* highlightQuery: argument query
    hpc,        \* "input" before the call, "done" after it, "thrown" when it threw
    hout        \* highlightQuery: the returned string

fvars == <<fsem, fkw, flimit, fpc, ranked, fused>>

hvars == <<htext, hquery, hpc, hout>>

vars == <<fsem, fkw, flimit, fpc, ranked, fused, reqs, moduleScope, htext, hquery, hpc, hout>>

-----------------------------------------------------------------------------
(* Values *)

\* JavaScript's undefined (an absent property).
Undefined == "undefined"

\* search.controller.js:178 and :189, the semantic weight 0.7, in tenths.
Wsem == 7
\* search.controller.js:189 and :196, the keyword weight 0.3, in tenths.
Wkw == 3

\* Largest total number of candidates in the two lists given to hybridReranking.
MaxTotal == 3

\* Largest number of candidates in one backend answer to a request.
MaxResults == 2

\* search.controller.js:9 and :70, the default of limit.
DefaultLimit == 5

\* Raw relevance scores a backend reports.
Scores == {0, 1, 2}

\* The limit argument: negative, zero, and positive below and above the list sizes.
Limits == {-1, 0, 1, 2, 5}

\* Identifier shapes of a candidate: chunk_id and metadata.doc_id, each
\* possibly absent.  A chunk_id "a" with doc_id "b", a doc_id alone, nothing.
IdShapes ==
    { [chunk_id |-> "a", doc_id |-> "b"],
      [chunk_id |-> Undefined, doc_id |-> "a"],
      [chunk_id |-> Undefined, doc_id |-> "b"],
      [chunk_id |-> Undefined, doc_id |-> Undefined] }

\* A raw candidate before its text is fixed.
RawCandidates == [ids : IdShapes, score : Scores]

\* The candidate of a backend: text, score, metadata and optional chunk_id.
\* The text names the list and the position the candidate came from.
Candidate(raw, tag, i) ==
    [ chunk_id |-> raw.ids.chunk_id,
      metadata |-> [doc_id |-> raw.ids.doc_id],
      score    |-> raw.score,
      text     |-> tag \o ToString(i) ]

CandidateList(raws, tag) == [i \in 1..Len(raws) |-> Candidate(raws[i], tag, i)]

Min(a, b) == IF a < b THEN a ELSE b
Max(a, b) == IF a > b THEN a ELSE b

-----------------------------------------------------------------------------
(* hybridReranking, search.controller.js:167-205 *)

\* JavaScript truthiness of an identifier: undefined and "" are falsy.
Truthy(v) == v # Undefined /\ v # ""

\* a || b for strings.
OrText(a, b) == IF Truthy(a) THEN a ELSE b

\* result.chunk_id || result.metadata.doc_id
IdOf(result) ==
    IF Truthy(result.chunk_id) THEN result.chunk_id ELSE result.metadata.doc_id

\* A Map is the sequence of its [key, val] entries in insertion order.
MapHas(m, k) == \E i \in 1..Len(m) : m[i].key = k

MapIndex(m, k) == CHOOSE i \in 1..Len(m) : m[i].key = k

MapGet(m, k) == m[MapIndex(m, k)].val

\* Mutant of MapSet: every set appends an entry, also for a key already held.
MapSetAppend(m, k, v) == Append(m, [key |-> k, val |-> v])

\* Map.prototype.set: an existing key keeps its position, a new key is appended.
MapSet(m, k, v) ==
    IF MapHas(m, k)
    THEN [m EXCEPT ![MapIndex(m, k)] = [key |-> k, val |-> v]]
    ELSE Append(m, [key |-> k, val |-> v])

MapValues(m) == [i \in 1..Len(m) |-> m[i].val]

\* { ...result, semanticScore, keywordScore, score }
Entry(result, sem, kw, score) ==
    [ chunk_id      |-> result.chunk_id,
      metadata      |-> result.metadata,
      text          |-> result.text,
      semanticScore |-> sem,
      keywordScore  |-> kw,
      score         |-> score ]

\* The body of semanticResults.forEach.
SemanticStep(m, result) ==
    MapSet(m, IdOf(result), Entry(result, result.score, 0, result.score * Wsem))

\* Mutant of KeywordOnlyEntry: the keyword-only score is left unweighted.
KeywordOnlyUnweighted(result) == Entry(result, 0, result.score, result.score)

\* The keyword-only branch of keywordResults.forEach.
KeywordOnlyEntry(result) == Entry(result, 0, result.score, result.score * Wkw)

\* Mutant of KeywordUpdate: the combined score forgets the semantic part.
KeywordUpdateOverwrite(existing, result) ==
    [existing EXCEPT !.keywordScore = result.score,
                     !.score = result.score * Wkw]

\* Mutant of KeywordUpdate: the keyword candidate also replaces the text and
\* the metadata of the entry.
KeywordUpdateTakesText(existing, result) ==
    [existing EXCEPT !.keywordScore = result.score,
                     !.score = existing.semanticScore * Wsem + result.score * Wkw,
                     !.text = result.text,
                     !.metadata = result.metadata]

\* The branch of keywordResults.forEach for a key the map already holds.
KeywordUpdate(existing, result) ==
    [existing EXCEPT !.keywordScore = result.score,
                     !.score = existing.semanticScore * Wsem + result.score * Wkw]

\* The body of keywordResults.forEach.
KeywordStep(m, result) ==
    LET id == IdOf(result) IN
    IF MapHas(m, id)
    THEN [m EXCEPT ![MapIndex(m, id)].val = KeywordUpdate(MapGet(m, id), result)]
    ELSE MapSet(m, id, KeywordOnlyEntry(result))

RECURSIVE SemanticPass(_, _)
SemanticPass(m, results) ==
    IF results = <<>> THEN m
    ELSE SemanticPass(SemanticStep(m, Head(results)), Tail(results))

RECURSIVE KeywordPass(_, _)
KeywordPass(m, results) ==
    IF results = <<>> THEN m
    ELSE KeywordPass(KeywordStep(m, Head(results)), Tail(results))

\* resultMap after both forEach loops.
ResultMap(semanticResults, keywordResults) ==
    KeywordPass(SemanticPass(<<>>, semanticResults), keywordResults)

\* The comparator (a, b) => b.score - a.score puts e before x when it is negative.
ComesBefore(e, x) == x.score - e.score < 0

\* Mutant of InsertByScore: e goes before the elements it ties with.
InsertBeforeEqual(sorted, e) ==
    LET n == Len(sorted)
        p == Cardinality({i \in 1..n : sorted[i].score > e.score})
    IN SubSeq(sorted, 1, p) \o <<e>> \o SubSeq(sorted, p + 1, n)

\* One insertion of a stable sort: e goes behind every element it does not
\* come before, so elements that compare equal keep their order.
InsertByScore(sorted, e) ==
    LET n == Len(sorted)
        p == IF \E i \in 1..n : ComesBefore(e, sorted[i])
             THEN (CHOOSE i \in 1..n : /\ ComesBefore(e, sorted[i])
                                       /\ \A j \in 1..(i - 1) : ~ComesBefore(e, sorted[j])) - 1
             ELSE n
    IN SubSeq(sorted, 1, p) \o <<e>> \o SubSeq(sorted, p + 1, n)

RECURSIVE SortFrom(_, _)
SortFrom(sorted, rest) ==
    IF rest = <<>> THEN sorted
    ELSE SortFrom(InsertByScore(sorted, Head(rest)), Tail(rest))

\* Array.prototype.sort with the score comparator (stable since ES2019).
SortByScore(arr) == SortFrom(<<>>, arr)

\* Array.prototype.slice(0, end): a negative end counts from the end of the array.
Slice0(arr, end) ==
    LET k == IF end < 0 THEN Max(Len(arr) + end, 0) ELSE Min(end, Len(arr))
    IN SubSeq(arr, 1, k)

\* Array.from(resultMap.values()).sort(...)
Ranked(semanticResults, keywordResults) ==
    SortByScore(MapValues(ResultMap(semanticResults, keywordResults)))

hybridReranking(semanticResults, keywordResults, limit) ==
    Slice0(Ranked(semanticResults, keywordResults), limit)

-----------------------------------------------------------------------------
(* The request handlers, search.controller.js:7-145 *)

\* The requests in flight.
Reqs == {1}

\* An optional number is <<>> when undefined, <<n>> otherwise.
NoNumber == <<>>

\* const { limit = 5 } = req.body
LimitOf(body) == IF body.limit = NoNumber THEN DefaultLimit ELSE body.limit[1]

\* a || b for an optional number a: undefined and 0 are falsy.
OrNumber(a, b) == IF a = NoNumber \/ a[1] = 0 THEN b ELSE a[1]

\* Request bodies.  query and keywords are absent, empty or a text.
Queries == {Undefined, "", "q", "s+1", "c++"}
Keywords == {Undefined, "", "k", "c++"}
BodyLimits == {NoNumber, <<1>>, <<2>>}
Filters == {Undefined, "f"}

Bodies == [query : Queries, keywords : Keywords, limit : BodyLimits, filters : Filters]

\* Candidates the backends answer a request with.
AnswerCandidates ==
    { [ids |-> [chunk_id |-> "a", doc_id |-> "b"], score |-> 2],
      [ids |-> [chunk_id |-> Undefined, doc_id |-> "a"], score |-> 1],
      [ids |-> [chunk_id |-> Undefined, doc_id |-> "b"], score |-> 1] }

AnswerLists(tag) ==
    UNION { {CandidateList(l, tag) : l \in [1..n -> AnswerCandidates]} : n \in 0..MaxResults }

\* The response data of POST /embed/text: absent, or {success, embedding}.
EmbedData ==
    { [present |-> FALSE, success |-> FALSE, embedding |-> Undefined],
      [present |-> TRUE, success |-> FALSE, embedding |-> Undefined],
      [present |-> TRUE, success |-> TRUE, embedding |-> "e"] }

\* The response data of POST /vectors/search and /vectors/keyword-search:
\* absent, or {results, total_matches, query_time_ms}, results possibly absent.
SearchData(tag) ==
    [present : {FALSE}, hasResults : {FALSE}, results : {<<>>},
     total_matches : {NoNumber}, query_time_ms : {NoNumber}]
    \cup [present : {TRUE}, hasResults : {FALSE}, results : {<<>>},
          total_matches : {NoNumber}, query_time_ms : {NoNumber}]
    \cup [present : {TRUE}, hasResults : {TRUE}, results : AnswerLists(tag),
          total_matches : {NoNumber}, query_time_ms : {NoNumber}]
    \cup [present : {TRUE}, hasResults : {TRUE}, results : AnswerLists(tag),
          total_matches : {<<9>>}, query_time_ms : {<<15>>}]

\* How an axios call settles: the promise rejects with an error, or is
\* fulfilled with a response carrying data.
Rejected(svc) == [svc |-> svc, settled |-> "rejected", error |-> svc \o " error"]
Fulfilled(svc, data) == [svc |-> svc, settled |-> "fulfilled", data |-> data]

EmbedAnswers == {Rejected("embed")} \cup {Fulfilled("embed", d) : d \in EmbedData}
VectorAnswers == {Rejected("vector")} \cup {Fulfilled("vector", d) : d \in SearchData("s")}
KeywordAnswers == {Rejected("keyword")} \cup {Fulfilled("keyword", d) : d \in SearchData("k")}

\* The state of one request.
Idle ==
    [ handler         |-> "none",
      body            |-> [query |-> Undefined, keywords |-> Undefined,
                           limit |-> NoNumber, filters |-> Undefined],
      received        |-> [query |-> Undefined, keywords |-> Undefined,
                           limit |-> NoNumber, filters |-> Undefined],
      pc              |-> "idle",
      calls           |-> <<>>,
      answers         |-> <<>>,
      semanticResults |-> <<>>,
      keywordResults  |-> <<>>,
      ids             |-> <<>>,
      fusions         |-> <<>>,
      res             |-> <<>>,
      nexts           |-> <<>> ]

\* The search handlers.  The repository holds two revisions of
\* search.controller.js: the one of src/api/controllers keeps the source's
\* names here, the one of src/docker/vector-store.Dockerfile:70-213 has the
\* suffix Later.
SemanticHandlers == {"semanticSearch", "semanticSearchLater"}
HybridHandlers == {"hybridSearch", "hybridSearchLater"}
LaterHandlers == {"semanticSearchLater", "hybridSearchLater"}

\* Mutant of LocalNames: semanticResults is declared with the requires at
\* the top of the file, not inside hybridSearch.
LocalNamesKeywordOnly(handler) ==
    IF handler \in HybridHandlers THEN {"keywordResults"} ELSE {}

\* The names a handler declares with let in its own body, so that every
\* invocation has a binding of its own: search.controller.js:79, :108
\* (the later revision: vector-store.Dockerfile:141, :159).
LocalNames(handler) ==
    IF handler \in HybridHandlers THEN {"semanticResults", "keywordResults"} ELSE {}

\* The module scope when the file has been loaded.  Of the names hybridSearch
\* assigns (:103, :121), those it does not declare itself are bindings of the
\* module, each holding []; axios and config (:1-2) are constants.
ModuleScope ==
    [name \in {"semanticResults", "keywordResults"} \ LocalNames("hybridSearch") |-> <<>>]

\* What the handler reads: a name it does not declare resolves to the
\* binding of the module scope.
Resolved(st, scope) ==
    [name \in DOMAIN st |->
        IF name \in DOMAIN scope \ LocalNames(st.handler) THEN scope[name] ELSE st[name]]

\* What is left in the invocation after the handler ran on: its own
\* bindings; a name it does not declare is not one of them.
OwnBindings(st, scope) ==
    [name \in DOMAIN st |->
        IF name \in DOMAIN scope \ LocalNames(st.handler) THEN Idle[name] ELSE st[name]]

\* The module scope after the handler ran on: its assignments to the names
\* it does not declare.
Assigned(st, scope) ==
    [name \in DOMAIN scope |->
        IF name \in LocalNames(st.handler) THEN scope[name] ELSE st[name]]

\* res.status(status).json(body), or res.json(body) with the default status 200;
\* the handler returns.
Send(st, status, body) ==
    [st EXCEPT !.res = Append(@, [status |-> status, body |-> body]), !.pc = "done"]

\* Mutant of Catch: the handler answers the error itself and then calls next.
CatchAndRespond(st, error) ==
    [st EXCEPT !.res = Append(@, [status |-> 500, body |-> [error |-> error]]),
               !.nexts = Append(@, error), !.pc = "done"]

\* catch (error) { next(error) }
Catch(st, error) == [st EXCEPT !.nexts = Append(@, error), !.pc = "done"]

\* await axios.post(...): the call is issued and the handler waits for it.
Await(st, call, pc) == [st EXCEPT !.calls = Append(@, call), !.pc = pc]

EmbedCall(st) == [svc |-> "embed", text |-> st.body.query]

VectorCall(st, k) == [svc |-> "vector", k |-> k, filters |-> st.body.filters]

\* Mutant of KeywordCall: the keyword search is asked for limit candidates.
KeywordCallExact(st) ==
    [svc |-> "keyword", keywords |-> st.body.keywords,
     limit |-> LimitOf(st.body), filters |-> st.body.filters]

KeywordCall(st) ==
    [svc |-> "keyword", keywords |-> st.body.keywords,
     limit |-> LimitOf(st.body) * 2, filters |-> st.body.filters]

\* highlightQuery, search.controller.js:150-162, on sequences of characters:
\* letters, digits, "_", white space and "+", the one character of the
\* queries here that a regular expression does not read as itself.  The
\* returned string is a sequence of characters and of the two markers.
MarkOpen == "<mark>"
MarkClose == "</mark>"

\* The letters, upper case first and lower case after it.
Letters ==
    << <<"A", "a">>, <<"B", "b">>, <<"C", "c">>, <<"D", "d">>, <<"E", "e">>,
       <<"F", "f">>, <<"G", "g">>, <<"H", "h">>, <<"I", "i">>, <<"J", "j">>,
       <<"K", "k">>, <<"L", "l">>, <<"M", "m">>, <<"N", "n">>, <<"O", "o">>,
       <<"P", "p">>, <<"Q", "q">>, <<"R", "r">>, <<"S", "s">>, <<"T", "t">>,
       <<"U", "u">>, <<"V", "v">>, <<"W", "w">>, <<"X", "x">>, <<"Y", "y">>,
       <<"Z", "z">> >>

\* toLowerCase() of one character and of a string
ToLower(c) ==
    IF \E i \in 1..Len(Letters) : Letters[i][1] = c
    THEN Letters[CHOOSE i \in 1..Len(Letters) : Letters[i][1] = c][2]
    ELSE c
ToLowerCase(s) == [i \in 1..Len(s) |-> ToLower(s[i])]

\* The character classes \s and \w ("+" is in neither).  \s is the blank, tab,
\* line feed, vertical tab, form feed, carriage return, U+00A0, U+1680,
\* U+2000 to U+200A, U+2028, U+2029, U+202F, U+205F, U+3000 and U+FEFF.  A
\* character up to U+007F is written as itself; a character beyond it is
\* written by its JavaScript escape, six characters that stand for one.
IsSpace(c) ==
    c \in {" ", "\t", "\n", "", "\f", "\r",
           "\\u00A0", "\\u1680", "\\u2000", "\\u2001", "\\u2002", "\\u2003",
           "\\u2004", "\\u2005", "\\u2006", "\\u2007", "\\u2008", "\\u2009",
           "\\u200A", "\\u2028", "\\u2029", "\\u202F", "\\u205F", "\\u3000",
           "\\uFEFF"}
IsWordChar(c) ==
    \/ \E i \in 1..Len(Letters) : c = Letters[i][1] \/ c = Letters[i][2]
    \/ c \in {"0", "1", "2", "3", "4", "5", "6", "7", "8", "9", "_"}

\* The end of the run of \s that starts at i.
RECURSIVE SkipSpaces(_, _)
SkipSpaces(s, i) == IF i <= Len(s) /\ IsSpace(s[i]) THEN SkipSpaces(s, i + 1) ELSE i

\* s.split(/\s+/): the pieces between runs of white space, the empty pieces
\* before a leading and after a trailing run included.
RECURSIVE SplitFrom(_, _, _)
SplitFrom(s, i, piece) ==
    IF i > Len(s) THEN <<piece>>
    ELSE IF IsSpace(s[i]) THEN <<piece>> \o SplitFrom(s, SkipSpaces(s, i), <<>>)
    ELSE SplitFrom(s, i + 1, Append(piece, s[i]))

\* search.controller.js:155, the length a query word must exceed
MinWordLength == 2

\* query.toLowerCase().split(/\s+/).filter(word => word.length > 2)
QueryWords(query) ==
    SelectSeq(SplitFrom(ToLowerCase(query), 1, <<>>),
              LAMBDA word : Len(word) > MinWordLength)

\* The alternatives of (${queryWords.join('|')}): the words, or the one empty
\* alternative of "()" when no word is left.
Alternatives(queryWords) == IF queryWords = <<>> THEN << <<>> >> ELSE queryWords

\* new RegExp(...) throws SyntaxError (nothing to repeat): the words are not
\* escaped, so a "+" in a word is the quantifier of the pattern, and one that
\* opens an alternative or follows another "+" has nothing to repeat.
InvalidPattern(queryWords) ==
    \E k \in 1..Len(queryWords) :
        LET word == queryWords[k] IN
        \/ word[1] = "+"
        \/ \E i \in 1..(Len(word) - 1) : word[i] = "+" /\ word[i + 1] = "+"

\* \b after the first p characters of text: a word character on exactly one side.
WordBoundary(text, p) ==
    (p >= 1 /\ IsWordChar(text[p])) # (p < Len(text) /\ IsWordChar(text[p + 1]))

\* The positions at which the alternative, read from its i-th character on,
\* can end when it starts after the first p characters of text, ignoring
\* case: a character matches itself, a character followed by "+" matches a
\* run of one or more of itself.
RECURSIVE MatchEnds(_, _, _, _)
MatchEnds(text, p, alt, i) ==
    IF i > Len(alt) THEN {p}
    ELSE LET fits(q) == q < Len(text) /\ ToLower(text[q + 1]) = ToLower(alt[i])
             runs == { n \in 1..(Len(text) - p) : \A m \in 0..(n - 1) : fits(p + m) }
         IN IF i < Len(alt) /\ alt[i + 1] = "+"
            THEN UNION { MatchEnds(text, p + n, alt, i + 2) : n \in runs }
            ELSE IF fits(p) THEN MatchEnds(text, p + 1, alt, i + 1) ELSE {}

\* The length of the match of \b(...)\b after the first p characters (the
\* first alternative that matches is taken), -1 when there is none.  An
\* alternative ends at one position at most: every matched character is a
\* word character, so the closing \b holds only where the word of the text
\* ends.
MatchLength(text, p, alts) ==
    LET matching(alt) == { e \in MatchEnds(text, p, alt, 1) :
                             WordBoundary(text, p) /\ WordBoundary(text, e) }
        ks == { k \in 1..Len(alts) : matching(alts[k]) # {} }
    IN IF ks = {} THEN -1
       ELSE LET ends == matching(alts[CHOOSE k \in ks : \A j \in ks : k <= j])
            IN (CHOOSE e \in ends : \A f \in ends : f <= e) - p

\* text.replace(regex, '<mark>$1</mark>') with the g flag, from position p:
\* after an empty match the search goes on one character further.
RECURSIVE ReplaceFrom(_, _, _)
ReplaceFrom(text, p, alts) ==
    IF p > Len(text) THEN <<>>
    ELSE LET n == MatchLength(text, p, alts)
             step == IF p = Len(text) THEN <<>>
                     ELSE <<text[p + 1]>> \o ReplaceFrom(text, p + 1, alts)
         IN IF n < 0 THEN step
            ELSE IF n = 0 THEN <<MarkOpen, MarkClose>> \o step
            ELSE <<MarkOpen>> \o SubSeq(text, p + 1, p + n) \o <<MarkClose>>
                 \o ReplaceFrom(text, p + n, alts)

\* highlightQuery throws: both arguments are truthy and the pattern is invalid.
highlightThrows(text, query) ==
    query # <<>> /\ text # <<>> /\ InvalidPattern(QueryWords(query))

\* The value highlightQuery returns when it does not throw, text and query
\* being sequences of characters; the markers are elements of their own.
highlightQuery(text, query) ==
    IF query = <<>> \/ text = <<>> THEN text
    ELSE ReplaceFrom(text, 0, Alternatives(QueryWords(query)))

\* The string of a sequence of characters and markers.
RECURSIVE Join(_)
Join(seq) == IF seq = <<>> THEN "" ELSE Head(seq) \o Join(Tail(seq))

\* The characters of a string of a request or of a backend's answer: the
\* queries and keywords, and the texts of the candidates.
CharsOf(string) ==
    LET spellings == {<<"q">>, <<"k">>, <<"s", "+", "1">>, <<"c", "+", "+">>}
                     \cup { <<tag, ToString(i)>> : tag \in {"s", "k"}, i \in 1..9 }
    IN CHOOSE chars \in spellings : Join(chars) = string

\* highlightQuery(result.text, query) on strings; undefined and "" are falsy.
Highlighted(text, query) ==
    IF ~Truthy(query) \/ ~Truthy(text) THEN text
    ELSE Join(highlightQuery(CharsOf(text), CharsOf(query)))

\* The caller-facing result: { text, score, metadata, highlight },
\* search.controller.js:46-51 and :128-133.
FormatResult(result, query) ==
    [text |-> result.text, score |-> result.score, metadata |-> result.metadata,
     highlight |-> Highlighted(result.text, query)]

FormatResults(results, query) ==
    [i \in 1..Len(results) |-> FormatResult(results[i], query)]

\* The callback of results.map throws for one of the results.
FormatThrows(results, query) ==
    \E i \in 1..Len(results) :
        /\ Truthy(query) /\ Truthy(results[i].text)
        /\ highlightThrows(CharsOf(results[i].text), CharsOf(query))

\* searchResponse.data.results || []
ResultsOrEmpty(data) == IF data.hasResults THEN data.results ELSE <<>>

\* Mutant of EmbedSucceeded: the success flag of the response is not read.
EmbedResponded(data) == data.present

\* semanticSearch :27, embedResponse.data && embedResponse.data.success
EmbedSucceeded(data) == data.present /\ data.success

\* semanticSearch :9-25
SemanticStart(st) ==
    IF ~Truthy(st.body.query)
    THEN Send(st, 400, [error |-> "Search query is required"])
    ELSE Await(st, EmbedCall(st), "awaitEmbed")

\* Mutant of SemanticAfterEmbed: a rejected embedding call is tried once more.
SemanticAfterEmbedRetry(st, ans) ==
    IF ans.settled = "rejected"
    THEN IF Len(st.calls) < 2 THEN Await(st, EmbedCall(st), "awaitEmbed")
         ELSE Catch(st, ans.error)
    ELSE IF ~EmbedSucceeded(ans.data)
    THEN Send(st, 500, [error |-> IF st.handler \in LaterHandlers
                                  THEN "Failed to generate embedding"
                                  ELSE "Failed to generate embedding for query"])
    ELSE Await(st, VectorCall(st, LimitOf(st.body)), "awaitVector")

\* semanticSearch :27-43
SemanticAfterEmbed(st, ans) ==
    IF ans.settled = "rejected" THEN Catch(st, ans.error)
    ELSE IF ~EmbedSucceeded(ans.data)
    THEN Send(st, 500, [error |-> IF st.handler \in LaterHandlers
                                  THEN "Failed to generate embedding"
                                  ELSE "Failed to generate embedding for query"])
    ELSE Await(st, VectorCall(st, LimitOf(st.body)), "awaitVector")

\* semanticSearch :45-58; the later revision maps searchRes.data.results || []
SemanticAfterVector(st, ans) ==
    IF ans.settled = "rejected" THEN Catch(st, ans.error)
    ELSE IF ~ans.data.present THEN Catch(st, "TypeError")
    ELSE IF ~ans.data.hasResults /\ st.handler \notin LaterHandlers
    THEN Catch(st, "TypeError")
    ELSE IF FormatThrows(ResultsOrEmpty(ans.data), st.body.query)
    THEN Catch(st, "SyntaxError")
    ELSE LET results == FormatResults(ResultsOrEmpty(ans.data), st.body.query) IN
         Send(st, 200,
              [ query           |-> st.body.query,
                results         |-> results,
                totalResults    |-> OrNumber(ans.data.total_matches, Len(results)),
                executionTimeMs |-> OrNumber(ans.data.query_time_ms, 0) ])

\* hybridSearch :125, the call of hybridReranking with its arguments is noted.
Fused(st) ==
    [st EXCEPT !.fusions =
        Append(@, [ semanticResults |-> st.semanticResults,
                    keywordResults  |-> st.keywordResults,
                    limit           |-> LimitOf(st.body) ])]

\* hybridSearch :124-140
HybridFinish(st) ==
    LET combinedResults ==
            hybridReranking(st.semanticResults, st.keywordResults, LimitOf(st.body))
        highlighted == OrText(st.body.query, st.body.keywords)
        results == FormatResults(combinedResults, highlighted)
    IN IF FormatThrows(combinedResults, highlighted) THEN Catch(Fused(st), "SyntaxError")
       ELSE Send(Fused(st), 200,
                 [ query        |-> st.body.query,
                   keywords     |-> st.body.keywords,
                   results      |-> results,
                   totalResults |-> Len(results) ])

\* hybridSearch :107-119
HybridKeywordPart(st) ==
    IF Truthy(st.body.keywords)
    THEN Await(st, KeywordCall(st), "awaitKeyword")
    ELSE HybridFinish(st)

\* Mutant of HybridInvalid: only absent strings are rejected, empty ones pass.
HybridInvalidIfAbsent(body) == body.query = Undefined /\ body.keywords = Undefined

\* hybridSearch :72, !query && !keywords
HybridInvalid(body) == ~Truthy(body.query) /\ ~Truthy(body.keywords)

\* hybridSearch :70-88
HybridStart(st) ==
    IF HybridInvalid(st.body)
    THEN Send(st, 400, [error |-> IF st.handler \in LaterHandlers
                                  THEN "Either query or keywords required"
                                  ELSE "Either search query or keywords are required"])
    ELSE IF Truthy(st.body.query)
    THEN Await(st, EmbedCall(st), "awaitEmbed")
    ELSE HybridKeywordPart(st)

\* Mutant of HybridAfterEmbed: the vector search is issued whatever the
\* embedding response says.
HybridAfterEmbedUnchecked(st, ans) ==
    IF ans.settled = "rejected" THEN Catch(st, ans.error)
    ELSE Await(st, VectorCall(st, LimitOf(st.body) * 2), "awaitVector")

\* hybridSearch :90-105
HybridAfterEmbed(st, ans) ==
    IF ans.settled = "rejected" THEN Catch(st, ans.error)
    ELSE IF EmbedSucceeded(ans.data)
    THEN Await(st, VectorCall(st, LimitOf(st.body) * 2), "awaitVector")
    ELSE HybridKeywordPart(st)

\* hybridSearch :103-105
HybridAfterVector(st, ans) ==
    IF ans.settled = "rejected" THEN Catch(st, ans.error)
    ELSE IF ~ans.data.present THEN Catch(st, "TypeError")
    ELSE HybridKeywordPart([st EXCEPT !.semanticResults = ResultsOrEmpty(ans.data)])

\* hybridSearch :121-122
HybridAfterKeyword(st, ans) ==
    IF ans.settled = "rejected" THEN Catch(st, ans.error)
    ELSE IF ~ans.data.present THEN Catch(st, "TypeError")
    ELSE HybridFinish([st EXCEPT !.keywordResults = ResultsOrEmpty(ans.data)])

\* The answer of a backend is delivered to the waiting handler.
Received(st, ans) == [st EXCEPT !.answers = Append(@, ans)]

\* A request arrives: its handler is named and its input is kept, once as
\* req.body, the object the handler works on, and once as it was received.
Arrive(st, handler, body) ==
    [st EXCEPT !.handler = handler, !.body = body, !.received = body]

\* POST /search/semantic arrives and the handler, of either revision, runs to
\* its first await.
SemanticSearch(r) ==
    /\ reqs[r].pc = "idle"
    /\ \E h \in SemanticHandlers, b \in Bodies :
         reqs' = [reqs EXCEPT ![r] = SemanticStart(Arrive(@, h, b))]
    /\ UNCHANGED <<fvars, hvars, moduleScope>>

\* POST /search/hybrid arrives and the handler, of either revision, runs to
\* its first await.
HybridSearch(r) ==
    /\ reqs[r].pc = "idle"
    /\ \E h \in HybridHandlers, b \in Bodies :
         reqs' = [reqs EXCEPT ![r] = HybridStart(Arrive(@, h, b))]
    /\ UNCHANGED <<fvars, hvars, moduleScope>>

\* The Embedding Service call settles and the handler resumes.
EmbedSettles(r) ==
    /\ reqs[r].pc = "awaitEmbed"
    /\ \E ans \in EmbedAnswers :
         reqs' = [reqs EXCEPT ![r] =
                     IF @.handler \in SemanticHandlers
                     THEN SemanticAfterEmbed(Received(@, ans), ans)
                     ELSE HybridAfterEmbed(Received(@, ans), ans)]
    /\ UNCHANGED <<fvars, hvars, moduleScope>>

\* The Vector Index Service call settles and the handler resumes.
VectorSettles(r) ==
    /\ reqs[r].pc = "awaitVector"
    /\ \E ans \in VectorAnswers :
         reqs' = [reqs EXCEPT ![r] =
                     IF @.handler \in SemanticHandlers
                     THEN SemanticAfterVector(Received(@, ans), ans)
                     ELSE HybridAfterVector(Received(@, ans), ans)]
    /\ UNCHANGED <<fvars, hvars, moduleScope>>

\* The Keyword Index Service call settles and the handler resumes.
KeywordSettles(r) ==
    /\ reqs[r].pc = "awaitKeyword"
    /\ \E ans \in KeywordAnswers :
         reqs' = [reqs EXCEPT ![r] = HybridAfterKeyword(Received(@, ans), ans)]
    /\ UNCHANGED <<fvars, hvars, moduleScope>>

-----------------------------------------------------------------------------
(* The document handlers, document.controller.js and mcp.controller.js.     *)
(* document.controller.js holds two revisions of createDocument,            *)
(* createDocumentBatch and getDocument: the later one (:161-367) keeps the   *)
(* source's name here, the earlier one (:1-160) has the suffix Earlier.      *)

\* Largest number of documents in one batch request.
MaxDocs == 2

\* Values of `doc_${Date.now()}_${Math.random()...}`.
GeneratedIds == {"doc_1", "doc_2"}

\* A metadata mapping: absent, or an object with an optional document_id and
\* an optional other key (note_type).
NoMetadata == [present |-> FALSE, document_id |-> Undefined, note_type |-> Undefined]
Metadata(id, note) == [present |-> TRUE, document_id |-> id, note_type |-> note]

RawDoc(text, documentId, document_id, metadata) ==
    [text |-> text, documentId |-> documentId, document_id |-> document_id,
     metadata |-> metadata]

\* Raw documents of a request: with or without text, with an identifier in
\* documentId, in document_id, in metadata.document_id, in all three, in none.
RawDocs ==
    { RawDoc("t", Undefined, Undefined, NoMetadata),
      RawDoc("t", "x", Undefined, NoMetadata),
      RawDoc("t", Undefined, "y", Metadata(Undefined, "n")),
      RawDoc("t", Undefined, Undefined, Metadata("z", "n")),
      RawDoc("t", "x", "y", Metadata("z", Undefined)),
      RawDoc("", Undefined, Undefined, NoMetadata),
      RawDoc(Undefined, "x", Undefined, Metadata(Undefined, "n")) }

\* req.body.documents: absent, not an array, or an array of raw documents.
DocumentsInputs ==
    { [kind |-> "missing", items |-> <<>>], [kind |-> "nonarray", items |-> <<>>] }
    \cup UNION { {[kind |-> "array", items |-> l] : l \in [1..n -> RawDocs]} : n \in 0..MaxDocs }

BatchBodies == [documents : DocumentsInputs]

\* The uploaded file of a multipart request (req.file) and the metadata field
\* (req.body.metadata): absent, not JSON, or the JSON of an object.
Files ==
    { [present |-> FALSE, mimetype |-> Undefined, content |-> ""],
      [present |-> TRUE, mimetype |-> "application/pdf", content |-> "%PDF"],
      [present |-> TRUE, mimetype |-> "text/plain", content |-> "t"],
      [present |-> TRUE, mimetype |-> "text/plain", content |-> ""] }

MetadataFields ==
    { [json |-> "absent", value |-> NoMetadata],
      [json |-> "invalid", value |-> NoMetadata],
      [json |-> "object", value |-> Metadata("z", "n")],
      [json |-> "object", value |-> Metadata(Undefined, "n")] }

UploadBodies == [file : Files, metadata : MetadataFields]

\* The response data of the MCP service and of the vector store's document
\* routes: absent, or {success, message} with an optional message.
ServiceData ==
    { [present |-> FALSE, success |-> FALSE, message |-> Undefined],
      [present |-> TRUE, success |-> TRUE, message |-> Undefined],
      [present |-> TRUE, success |-> FALSE, message |-> "m"],
      [present |-> TRUE, success |-> FALSE, message |-> Undefined] }

ServiceAnswers(svc) == {Rejected(svc)} \cup {Fulfilled(svc, d) : d \in ServiceData}

\* pdf(req.file.buffer): rejects, or resolves to { text }.
PdfAnswers ==
    {Rejected("pdf")} \cup {Fulfilled("pdf", [present |-> TRUE, text |-> t]) : t \in {"", "p"}}

\* metadata || {}, and the default of `metadata = {}`.
MetadataOrEmpty(metadata) ==
    IF metadata.present THEN metadata ELSE Metadata(Undefined, Undefined)

\* metadata.document_id = id, and { ...metadata, document_id: id }
WithDocumentId(metadata, id) ==
    [metadata EXCEPT !.present = TRUE, !.document_id = id]

\* axios.post(`${config.mcpServiceUrl}/documents`, { documents })
StoreCall(documents) == [svc |-> "store", documents |-> documents]

\* !text
TextMissing(text) == ~Truthy(text)

\* { text, document_id: documentId, metadata } after
\* metadata.document_id = documentId, document.controller.js:195-207, :237-248
NormalizedDoc(text, metadata, gen) ==
    LET documentId == OrText(metadata.document_id, gen) IN
    [text |-> text, document_id |-> documentId,
     metadata |-> WithDocumentId(metadata, documentId)]

\* The store call is issued; the identifiers of its documents are kept for
\* the response.
AwaitStore(st, documents) ==
    Await([st EXCEPT !.ids = [i \in 1..Len(documents) |-> documents[i].document_id]],
          StoreCall(documents), "awaitStore")

\* !mcpRes.data.success
IngestionFailed(data) == ~data.success

\* Mutant of AfterStore: the failure response is sent without return, the
\* success response follows it.
AfterStoreNoReturn(st, ans, fallback, body) ==
    IF ans.settled = "rejected" THEN Catch(st, ans.error)
    ELSE IF ~ans.data.present THEN Catch(st, "TypeError")
    ELSE IF IngestionFailed(ans.data)
    THEN Send(Send(st, 500, [error |-> OrText(ans.data.message, fallback)]), 201, body)
    ELSE Send(st, 201, body)

\* document.controller.js:211-221, :251-261, :299-309
AfterStore(st, ans, fallback, body) ==
    IF ans.settled = "rejected" THEN Catch(st, ans.error)
    ELSE IF ~ans.data.present THEN Catch(st, "TypeError")
    ELSE IF IngestionFailed(ans.data)
    THEN Send(st, 500, [error |-> OrText(ans.data.message, fallback)])
    ELSE Send(st, 201, body)

\* createDocument :232-250.  metadata is req.body.metadata itself when the
\* caller sent one, so metadata.document_id = documentId (:240) writes the
\* identifier into the request body; the default {} is an object of its own.
CreateDocumentStart(st, gen) ==
    IF TextMissing(st.body.text)
    THEN Send(st, 400, [error |-> "Document text is required"])
    ELSE LET doc == NormalizedDoc(st.body.text, MetadataOrEmpty(st.body.metadata), gen)
             written == IF st.body.metadata.present
                        THEN [st EXCEPT !.body.metadata = doc.metadata]
                        ELSE st
         IN AwaitStore(written, <<doc>>)

\* createDocument :251-261
CreateDocumentAfterStore(st, ans) ==
    AfterStore(st, ans, "MCP ingestion failed",
               [success |-> TRUE, message |-> "Document created successfully",
                documentId |-> st.ids[1]])

\* Mutant of InvalidDocuments: an empty array is accepted.
InvalidDocumentsIfNotArray(documents) == documents.kind # "array"

\* !Array.isArray(documents) || documents.length === 0, with !documents before
\* it in the earlier revision and in ingestDocuments
InvalidDocuments(documents) ==
    documents.kind # "array" \/ Len(documents.items) = 0

\* Mutant of FormatDoc: the identifier is always generated.
FormatDocGenerated(doc, gen) ==
    [text |-> doc.text, document_id |-> gen, metadata |-> WithDocumentId(doc.metadata, gen)]

\* createDocumentBatch :279-288
FormatDoc(doc, gen) ==
    LET id == OrText(doc.document_id, gen) IN
    [text |-> doc.text, document_id |-> id, metadata |-> WithDocumentId(doc.metadata, id)]

BatchMessage(n) == "Batch of " \o ToString(n) \o " documents created successfully"

\* createDocumentBatch :272-298
CreateDocumentBatchStart(st, gens) ==
    IF InvalidDocuments(st.body.documents)
    THEN Send(st, 400, [error |-> "Valid documents array is required"])
    ELSE LET documents == st.body.documents.items IN
         AwaitStore(st, [i \in 1..Len(documents) |-> FormatDoc(documents[i], gens[i])])

\* createDocumentBatch :299-309
CreateDocumentBatchAfterStore(st, ans) ==
    AfterStore(st, ans, "MCP batch ingestion failed",
               [success |-> TRUE, message |-> BatchMessage(Len(st.ids)),
                documentIds |-> st.ids])

\* uploadDocument :194-209
UploadForward(st, text, gen) ==
    LET metadata == IF st.body.metadata.json = "object"
                    THEN st.body.metadata.value
                    ELSE Metadata(Undefined, Undefined)
    IN AwaitStore(st, <<NormalizedDoc(text, metadata, gen)>>)

\* uploadDocument :170-192
UploadDocumentStart(st, gen) ==
    IF ~st.body.file.present
    THEN Send(st, 400, [error |-> "No file uploaded"])
    ELSE IF st.body.metadata.json = "invalid"
    THEN Send(st, 400, [error |-> "Invalid metadata JSON"])
    ELSE IF st.body.file.mimetype = "application/pdf"
    THEN Await(st, [svc |-> "pdf"], "awaitPdf")
    ELSE UploadForward(st, st.body.file.content, gen)

\* uploadDocument :188-189
UploadDocumentAfterPdf(st, ans, gen) ==
    IF ans.settled = "rejected" THEN Catch(st, ans.error)
    ELSE UploadForward(st, ans.data.text, gen)

\* uploadDocument :211-221
UploadDocumentAfterStore(st, ans) ==
    AfterStore(st, ans, "MCP ingestion failed",
               [success |-> TRUE, message |-> "File uploaded & document ingested",
                documentId |-> st.ids[1]])

\* createDocument, earlier revision :9-34
CreateDocumentEarlierStart(st, gen) ==
    IF TextMissing(st.body.text)
    THEN Send(st, 400, [error |-> "Document text is required"])
    ELSE AwaitStore(st, <<[text |-> st.body.text,
                           document_id |-> OrText(st.body.documentId, gen),
                           metadata |-> MetadataOrEmpty(st.body.metadata)]>>)

\* createDocument, earlier revision :36-43: the response of the store is not read
CreateDocumentEarlierAfterStore(st, ans) ==
    IF ans.settled = "rejected" THEN Catch(st, ans.error)
    ELSE Send(st, 201, [success |-> TRUE, message |-> "Document created successfully",
                        documentId |-> st.ids[1]])

\* createDocumentBatch, earlier revision :61-65
FormatDocEarlier(doc, gen) ==
    [text |-> doc.text, document_id |-> OrText(doc.documentId, gen),
     metadata |-> MetadataOrEmpty(doc.metadata)]

\* createDocumentBatch, earlier revision :52-75
CreateDocumentBatchEarlierStart(st, gens) ==
    IF InvalidDocuments(st.body.documents)
    THEN Send(st, 400, [error |-> "Valid documents array is required"])
    ELSE LET documents == st.body.documents.items IN
         AwaitStore(st, [i \in 1..Len(documents) |-> FormatDocEarlier(documents[i], gens[i])])

\* createDocumentBatch, earlier revision :77-85
CreateDocumentBatchEarlierAfterStore(st, ans) ==
    IF ans.settled = "rejected" THEN Catch(st, ans.error)
    ELSE Send(st, 201, [success |-> TRUE,
                        message |-> BatchMessage(Len(st.body.documents.items)),
                        documentIds |-> st.ids])

\* ingestDocuments, mcp.controller.js:50-54
FormatDocIngest(doc) ==
    [text |-> doc.text, document_id |-> OrText(doc.documentId, doc.document_id),
     metadata |-> MetadataOrEmpty(doc.metadata)]

\* ingestDocuments, mcp.controller.js:41-64
IngestDocumentsStart(st) ==
    IF InvalidDocuments(st.body.documents)
    THEN Send(st, 400, [error |-> "Valid documents array is required"])
    ELSE LET documents == st.body.documents.items IN
         AwaitStore(st, [i \in 1..Len(documents) |-> FormatDocIngest(documents[i])])

\* res.json(response.data): the data of the backend is the body, status 200
Forward(st, ans) ==
    IF ans.settled = "rejected" THEN Catch(st, ans.error)
    ELSE Send(st, 200, ans.data)

\* One identifier per document of the request, for those that bring none.
Generated(st) ==
    IF st.body.documents.kind = "array"
    THEN [1..Len(st.body.documents.items) -> GeneratedIds]
    ELSE {<<>>}

\* document.controller.js:141 and :357, the defaults of page and limit.
DefaultPage == 1
DefaultPageLimit == 20

\* req.params of getDocument and deleteDocument, req.query of listDocuments,
\* req.body of getContext.
DocumentParams == [id : {"d1"}]
ListQueries == [page : {NoNumber, <<2>>}, limit : BodyLimits, filter : Filters]
ContextBodies == [query : Queries, limit : BodyLimits, metadata_filters : Filters]

\* getDocument :320-325
GetDocumentStart(st) == Await(st, [svc |-> "document", id |-> st.body.id], "awaitVectorStore")

\* getDocument :326-329
GetDocumentAfter(st, ans) ==
    IF ans.settled = "rejected" THEN Catch(st, ans.error)
    ELSE IF ~ans.data.present THEN Catch(st, "TypeError")
    ELSE IF ~ans.data.success THEN Send(st, 404, [error |-> "Document not found"])
    ELSE Send(st, 200, ans.data)

\* getDocument, earlier revision :102-108
GetDocumentEarlierAfter(st, ans) ==
    IF ans.settled = "rejected" THEN Catch(st, ans.error)
    ELSE IF ~ans.data.present \/ ~ans.data.success
    THEN Send(st, 404, [error |-> "Document not found"])
    ELSE Send(st, 200, ans.data)

\* deleteDocument :340-345 (the same in the earlier revision and in mcp.controller.js)
DeleteDocumentStart(st) == Await(st, [svc |-> "delete", id |-> st.body.id], "awaitMcp")

\* listDocuments :357-362
ListDocumentsStart(st) ==
    Await(st, [svc |-> "list",
               page |-> IF st.body.page = NoNumber THEN DefaultPage ELSE st.body.page[1],
               limit |-> IF st.body.limit = NoNumber THEN DefaultPageLimit ELSE st.body.limit[1],
               filter |-> st.body.filter],
          "awaitVectorStore")

\* getContext, mcp.controller.js:9-27
GetContextStart(st) ==
    IF ~Truthy(st.body.query)
    THEN Send(st, 400, [error |-> "Query is required"])
    ELSE Await(st, [svc |-> "context", query |-> st.body.query,
                    limit |-> LimitOf(st.body),
                    metadata_filters |-> st.body.metadata_filters],
               "awaitMcp")

\* POST /documents arrives and createDocument runs to its await.
CreateDocument(r) ==
    /\ reqs[r].pc = "idle"
    /\ \E b \in RawDocs, gen \in GeneratedIds :
         reqs' = [reqs EXCEPT ![r] = CreateDocumentStart(Arrive(@, "createDocument", b), gen)]
    /\ UNCHANGED <<fvars, hvars, moduleScope>>

\* The earlier revision of createDocument.
CreateDocumentEarlier(r) ==
    /\ reqs[r].pc = "idle"
    /\ \E b \in RawDocs, gen \in GeneratedIds :
         reqs' = [reqs EXCEPT ![r] =
                     CreateDocumentEarlierStart(Arrive(@, "createDocumentEarlier", b), gen)]
    /\ UNCHANGED <<fvars, hvars, moduleScope>>

\* POST /documents/batch arrives and createDocumentBatch runs to its await.
CreateDocumentBatch(r) ==
    /\ reqs[r].pc = "idle"
    /\ \E b \in BatchBodies :
         LET st == Arrive(reqs[r], "createDocumentBatch", b) IN
         \E gens \in Generated(st) :
             reqs' = [reqs EXCEPT ![r] = CreateDocumentBatchStart(st, gens)]
    /\ UNCHANGED <<fvars, hvars, moduleScope>>

\* The earlier revision of createDocumentBatch.
CreateDocumentBatchEarlier(r) ==
    /\ reqs[r].pc = "idle"
    /\ \E b \in BatchBodies :
         LET st == Arrive(reqs[r], "createDocumentBatchEarlier", b) IN
         \E gens \in Generated(st) :
             reqs' = [reqs EXCEPT ![r] = CreateDocumentBatchEarlierStart(st, gens)]
    /\ UNCHANGED <<fvars, hvars, moduleScope>>

\* A multipart upload arrives and uploadDocument runs to its first await.
UploadDocument(r) ==
    /\ reqs[r].pc = "idle"
    /\ \E b \in UploadBodies, gen \in GeneratedIds :
         reqs' = [reqs EXCEPT ![r] = UploadDocumentStart(Arrive(@, "uploadDocument", b), gen)]
    /\ UNCHANGED <<fvars, hvars, moduleScope>>

\* POST /mcp/documents arrives and ingestDocuments runs to its await.
IngestDocuments(r) ==
    /\ reqs[r].pc = "idle"
    /\ \E b \in BatchBodies :
         reqs' = [reqs EXCEPT ![r] = IngestDocumentsStart(Arrive(@, "ingestDocuments", b))]
    /\ UNCHANGED <<fvars, hvars, moduleScope>>

\* GET /documents/:id
GetDocument(r) ==
    /\ reqs[r].pc = "idle"
    /\ \E b \in DocumentParams, h \in {"getDocument", "getDocumentEarlier"} :
         reqs' = [reqs EXCEPT ![r] = GetDocumentStart(Arrive(@, h, b))]
    /\ UNCHANGED <<fvars, hvars, moduleScope>>

\* DELETE /documents/:id and DELETE /mcp/documents/:id
DeleteDocument(r) ==
    /\ reqs[r].pc = "idle"
    /\ \E b \in DocumentParams :
         reqs' = [reqs EXCEPT ![r] = DeleteDocumentStart(Arrive(@, "deleteDocument", b))]
    /\ UNCHANGED <<fvars, hvars, moduleScope>>

\* GET /documents
ListDocuments(r) ==
    /\ reqs[r].pc = "idle"
    /\ \E b \in ListQueries :
         reqs' = [reqs EXCEPT ![r] = ListDocumentsStart(Arrive(@, "listDocuments", b))]
    /\ UNCHANGED <<fvars, hvars, moduleScope>>

\* POST /mcp/context
GetContext(r) ==
    /\ reqs[r].pc = "idle"
    /\ \E b \in ContextBodies :
         reqs' = [reqs EXCEPT ![r] = GetContextStart(Arrive(@, "getContext", b))]
    /\ UNCHANGED <<fvars, hvars, moduleScope>>

\* pdf-parse settles and uploadDocument resumes.
PdfSettles(r) ==
    /\ reqs[r].pc = "awaitPdf"
    /\ \E ans \in PdfAnswers, gen \in GeneratedIds :
         reqs' = [reqs EXCEPT ![r] = UploadDocumentAfterPdf(Received(@, ans), ans, gen)]
    /\ UNCHANGED <<fvars, hvars, moduleScope>>

\* POST /documents of the MCP service settles and the handler resumes.
StoreSettles(r) ==
    /\ reqs[r].pc = "awaitStore"
    /\ \E ans \in ServiceAnswers("store") :
         reqs' = [reqs EXCEPT ![r] =
                     CASE @.handler = "createDocument" ->
                              CreateDocumentAfterStore(Received(@, ans), ans)
                       [] @.handler = "createDocumentBatch" ->
                              CreateDocumentBatchAfterStore(Received(@, ans), ans)
                       [] @.handler = "uploadDocument" ->
                              UploadDocumentAfterStore(Received(@, ans), ans)
                       [] @.handler = "createDocumentEarlier" ->
                              CreateDocumentEarlierAfterStore(Received(@, ans), ans)
                       [] @.handler = "createDocumentBatchEarlier" ->
                              CreateDocumentBatchEarlierAfterStore(Received(@, ans), ans)
                       [] OTHER -> Forward(Received(@, ans), ans)]
    /\ UNCHANGED <<fvars, hvars, moduleScope>>

\* A call to /context or DELETE /documents/:id of the MCP service settles.
McpSettles(r) ==
    /\ reqs[r].pc = "awaitMcp"
    /\ \E ans \in ServiceAnswers(reqs[r].calls[1].svc) :
         reqs' = [reqs EXCEPT ![r] = Forward(Received(@, ans), ans)]
    /\ UNCHANGED <<fvars, hvars, moduleScope>>

\* A call to the document routes of the vector store settles.
VectorStoreSettles(r) ==
    /\ reqs[r].pc = "awaitVectorStore"
    /\ \E ans \in ServiceAnswers(reqs[r].calls[1].svc) :
         reqs' = [reqs EXCEPT ![r] =
                     CASE @.handler = "getDocument" -> GetDocumentAfter(Received(@, ans), ans)
                       [] @.handler = "getDocumentEarlier" ->
                              GetDocumentEarlierAfter(Received(@, ans), ans)
                       [] OTHER -> Forward(Received(@, ans), ans)]
    /\ UNCHANGED <<fvars, hvars, moduleScope>>

\* The pending axios call of the request never returns: the calls set no
\* timeout option and no axios default is configured, so the await stays
\* pending for good.
AxiosAwaits ==
    {"awaitEmbed", "awaitVector", "awaitKeyword", "awaitStore", "awaitMcp", "awaitVectorStore"}

NeverReturns(r) ==
    /\ reqs[r].pc \in AxiosAwaits
    /\ reqs' = [reqs EXCEPT ![r].pc = "hung"]
    /\ UNCHANGED <<fvars, hvars, moduleScope>>

Init ==
    /\ reqs = [r \in Reqs |-> Idle]
    /\ fsem = <<>> /\ fkw = <<>> /\ flimit = 0
    /\ fpc = "unused" /\ ranked = <<>> /\ fused = <<>>
    /\ htext = <<>> /\ hquery = <<>> /\ hpc = "unused" /\ hout = <<>>
    /\ moduleScope = ModuleScope

Next ==
    \E r \in Reqs :
        \/ SemanticSearch(r)
        \/ HybridSearch(r)
        \/ EmbedSettles(r)
        \/ VectorSettles(r)
        \/ KeywordSettles(r)
        \/ CreateDocument(r)
        \/ CreateDocumentEarlier(r)
        \/ CreateDocumentBatch(r)
        \/ CreateDocumentBatchEarlier(r)
        \/ UploadDocument(r)
        \/ IngestDocuments(r)
        \/ GetDocument(r)
        \/ DeleteDocument(r)
        \/ ListDocuments(r)
        \/ GetContext(r)
        \/ PdfSettles(r)
        \/ StoreSettles(r)
        \/ McpSettles(r)
        \/ VectorStoreSettles(r)
        \/ NeverReturns(r)

Spec == Init /\ [][Next]_vars

\* The event loop resumes a handler whenever the call it awaits has settled;
\* nothing makes a backend answer (see NeverReturns).
SpecLive == Spec /\ WF_vars(Next)

-----------------------------------------------------------------------------
(* Two search requests handled at the same time.  The handlers are the ones *)
(* above; the bodies and the backend answers are a few of theirs.           *)

Pair == {1, 2}

PairBodies ==
    { [query |-> "q", keywords |-> "k", limit |-> <<1>>, filters |-> Undefined],
      [query |-> "q", keywords |-> Undefined, limit |-> <<2>>, filters |-> "f"],
      [query |-> Undefined, keywords |-> "k", limit |-> NoNumber, filters |-> Undefined] }

\* The result lists a search backend answers with: one candidate, or two.
PairSearchAnswers(svc, tag) ==
    LET lists ==
          { CandidateList(<<[ids |-> [chunk_id |-> "a", doc_id |-> "b"], score |-> 2]>>, tag),
            CandidateList(<<[ids |-> [chunk_id |-> Undefined, doc_id |-> "b"], score |-> 1],
                            [ids |-> [chunk_id |-> Undefined, doc_id |-> "a"], score |-> 1]>>,
                          tag) }
    IN {Rejected(svc)}
       \cup { Fulfilled(svc, [present |-> TRUE, hasResults |-> TRUE, results |-> l,
                              total_matches |-> NoNumber, query_time_ms |-> NoNumber])
              : l \in lists }

\* The answers to the call a request awaits.
PairAnswers(pc) ==
    CASE pc = "awaitEmbed" ->
             { Rejected("embed"),
               Fulfilled("embed", [present |-> TRUE, success |-> FALSE, embedding |-> Undefined]),
               Fulfilled("embed", [present |-> TRUE, success |-> TRUE, embedding |-> "e"]) }
      [] pc = "awaitVector" -> PairSearchAnswers("vector", "s")
      [] pc = "awaitKeyword" -> PairSearchAnswers("keyword", "k")

\* A search handler runs from its start to its first await.
StartSearch(st) ==
    IF st.handler \in SemanticHandlers THEN SemanticStart(st) ELSE HybridStart(st)

\* A search handler resumes with the answer to the call it awaits.
ResumeSearch(st, ans) ==
    CASE st.pc = "awaitEmbed" ->
             IF st.handler \in SemanticHandlers
             THEN SemanticAfterEmbed(Received(st, ans), ans)
             ELSE HybridAfterEmbed(Received(st, ans), ans)
      [] st.pc = "awaitVector" ->
             IF st.handler \in SemanticHandlers
             THEN SemanticAfterVector(Received(st, ans), ans)
             ELSE HybridAfterVector(Received(st, ans), ans)
      [] st.pc = "awaitKeyword" -> HybridAfterKeyword(Received(st, ans), ans)

\* A search request arrives and its handler runs to its first await.
PairArrives(r) ==
    /\ reqs[r].pc = "idle"
    /\ \E h \in SemanticHandlers \cup HybridHandlers, b \in PairBodies :
         \E st \in {StartSearch(Resolved(Arrive(reqs[r], h, b), moduleScope))} :
           /\ reqs' = [reqs EXCEPT ![r] = OwnBindings(st, moduleScope)]
           /\ moduleScope' = Assigned(st, moduleScope)
    /\ UNCHANGED <<fvars, hvars>>

\* The call a request awaits settles and its handler resumes, whatever the
\* other request is doing.
PairSettles(r) ==
    /\ reqs[r].pc \in {"awaitEmbed", "awaitVector", "awaitKeyword"}
    /\ \E ans \in PairAnswers(reqs[r].pc) :
         \E st \in {ResumeSearch(Resolved(reqs[r], moduleScope), ans)} :
           /\ reqs' = [reqs EXCEPT ![r] = OwnBindings(st, moduleScope)]
           /\ moduleScope' = Assigned(st, moduleScope)
    /\ UNCHANGED <<fvars, hvars>>

PairInit ==
    /\ reqs = [r \in Pair |-> Idle]
    /\ fsem = <<>> /\ fkw = <<>> /\ flimit = 0
    /\ fpc = "unused" /\ ranked = <<>> /\ fused = <<>>
    /\ htext = <<>> /\ hquery = <<>> /\ hpc = "unused" /\ hout = <<>>
    /\ moduleScope = ModuleScope

SpecPair == PairInit /\ [][\E r \in Pair : PairArrives(r) \/ PairSettles(r)]_vars

-----------------------------------------------------------------------------
(* The fusion function on its own: the inputs are drawn, then it is applied. *)

FuseInit ==
    /\ reqs = [r \in Reqs |-> Idle]
    /\ \E n \in 0..MaxTotal : \E m \in 0..(MaxTotal - n) :
         \E s \in [1..n -> RawCandidates], k \in [1..m -> RawCandidates] :
           /\ fsem = CandidateList(s, "s")
           /\ fkw = CandidateList(k, "k")
    /\ flimit \in Limits
    /\ fpc = "input"
    /\ ranked = <<>>
    /\ fused = <<>>
    /\ htext = <<>> /\ hquery = <<>> /\ hpc = "unused" /\ hout = <<>>
    /\ moduleScope = ModuleScope

Fuse ==
    /\ fpc = "input"
    /\ ranked' = Ranked(fsem, fkw)
    /\ fused' = hybridReranking(fsem, fkw, flimit)
    /\ fpc' = "done"
    /\ UNCHANGED <<fsem, fkw, flimit, reqs, moduleScope, hvars>>

SpecFuse == FuseInit /\ [][Fuse]_vars

-----------------------------------------------------------------------------
(* highlightQuery on its own: the arguments are drawn, then it is applied.   *)

\* Longest text and longest query given to highlightQuery.
MaxTextLen == 4
MaxQueryLen == 4

\* The characters of texts and queries: letters in both cases, the blank and
\* a character that is neither and that a pattern reads as its quantifier.
Chars == {"a", "A", "b", " ", "+"}

Strings(n) == UNION { [1..k -> Chars] : k \in 0..n }

\* The function on its own: the arguments are drawn, then it is applied.
HighlightInit ==
    /\ htext \in Strings(MaxTextLen)
    /\ hquery \in Strings(MaxQueryLen)
    /\ hpc = "input"
    /\ hout = <<>>
    /\ reqs = [r \in Reqs |-> Idle]
    /\ moduleScope = ModuleScope
    /\ fsem = <<>> /\ fkw = <<>> /\ flimit = 0
    /\ fpc = "unused" /\ ranked = <<>> /\ fused = <<>>

Highlight ==
    /\ hpc = "input"
    /\ IF highlightThrows(htext, hquery)
       THEN hpc' = "thrown" /\ hout' = <<>>
       ELSE hpc' = "done" /\ hout' = highlightQuery(htext, hquery)
    /\ UNCHANGED <<htext, hquery, fvars, reqs, moduleScope>>

SpecHighlight == HighlightInit /\ [][Highlight]_vars

-----------------------------------------------------------------------------
(* Vocabulary of the fusion claims, stated on the inputs and the outputs. *)

\* The identity key of a candidate or of a fused entry: the chunk identifier
\* if it has one, else the doc_id of its metadata (Undefined if it has neither).
IdentityKey(c) ==
    IF c.chunk_id # Undefined THEN c.chunk_id ELSE c.metadata.doc_id

KeysOf(list) == {IdentityKey(list[i]) : i \in 1..Len(list)}

HasNoId(c) == c.chunk_id = Undefined /\ c.metadata.doc_id = Undefined

\* The score of the last candidate of the list that has the key.
LastScore(list, k) ==
    LET last == CHOOSE i \in 1..Len(list) :
                    /\ IdentityKey(list[i]) = k
                    /\ \A j \in (i + 1)..Len(list) : IdentityKey(list[j]) # k
    IN list[last].score

\* The position at which a key is first seen, reading the semantic list and
\* then the keyword list.
FirstSeen(k) ==
    LET all == fsem \o fkw
    IN CHOOSE i \in 1..Len(all) :
           /\ IdentityKey(all[i]) = k
           /\ \A j \in 1..(i - 1) : IdentityKey(all[j]) # k

EntriesWithKey(arr, k) == {i \in 1..Len(arr) : IdentityKey(arr[i]) = k}

\* C1: for every limit >= 1 the returned sequence is ordered by combined score,
\* highest first, and entries of equal combined score are in first-seen order
\* (keys of the semantic list in its order, then the keys seen only in the
\* keyword list in its order).
C1_SortedStable ==
    (fpc = "done" /\ flimit >= 1) =>
        \A i, j \in 1..Len(fused) :
            i < j =>
                \/ fused[i].score > fused[j].score
                \/ /\ fused[i].score = fused[j].score
                   /\ FirstSeen(IdentityKey(fused[i])) < FirstSeen(IdentityKey(fused[j]))

\* C1 witness: three entries are returned, the first scores higher than the
\* second, and the second, a key of the semantic list, ties with the third, a
\* key seen only in the keyword list.
C1_Witness ==
    /\ fpc = "done" /\ flimit >= 1
    /\ Len(fused) = 3
    /\ fused[1].score > fused[2].score
    /\ fused[2].score = fused[3].score
    /\ IdentityKey(fused[2]) \in KeysOf(fsem)
    /\ IdentityKey(fused[3]) \notin KeysOf(fsem)

\* C2: the function never returns more than `limit` entries, for every integer
\* limit; a length is never negative, so for a negative limit this asks for no
\* entries at all (section 4.2: a limit <= 0 yields an empty result).
C2_AtMostLimit ==
    fpc = "done" => Len(fused) <= Max(flimit, 0)

\* C3: a key that occurs in both lists has exactly one entry in the untruncated
\* output; its semanticScore is the semantic candidate's score, its keywordScore
\* the keyword candidate's score, and its combined score is
\* semanticScore * 0.7 + keywordScore * 0.3 (in tenths: * 7, * 3).
C3_BothListsMergedOnce ==
    fpc = "done" =>
        \A k \in KeysOf(fsem) \cap KeysOf(fkw) :
            /\ Cardinality(EntriesWithKey(ranked, k)) = 1
            /\ \A i \in EntriesWithKey(ranked, k) :
                   /\ ranked[i].semanticScore = LastScore(fsem, k)
                   /\ ranked[i].keywordScore = LastScore(fkw, k)
                   /\ ranked[i].score = 7 * LastScore(fsem, k) + 3 * LastScore(fkw, k)

\* C3 witness: a key is in both lists with non-zero scores, and was fused.
C3_Witness ==
    /\ fpc = "done"
    /\ \E k \in KeysOf(fsem) \cap KeysOf(fkw) :
           /\ LastScore(fsem, k) > 0
           /\ LastScore(fkw, k) > 0
           /\ LastScore(fsem, k) # LastScore(fkw, k)

\* C4: a key that occurs in one list only has an entry in the untruncated output
\* whose other constituent score is 0 and whose combined score is its single
\* weighted score (score * 0.7 if semantic only, score * 0.3 if keyword only).
C4_SingleListWeighted ==
    fpc = "done" =>
        /\ \A k \in KeysOf(fsem) \ KeysOf(fkw) :
               /\ Cardinality(EntriesWithKey(ranked, k)) = 1
               /\ \A i \in EntriesWithKey(ranked, k) :
                      /\ ranked[i].semanticScore = LastScore(fsem, k)
                      /\ ranked[i].keywordScore = 0
                      /\ ranked[i].score = 7 * LastScore(fsem, k)
        /\ \A k \in KeysOf(fkw) \ KeysOf(fsem) :
               /\ Cardinality(EntriesWithKey(ranked, k)) = 1
               /\ \A i \in EntriesWithKey(ranked, k) :
                      /\ ranked[i].semanticScore = 0
                      /\ ranked[i].keywordScore = LastScore(fkw, k)
                      /\ ranked[i].score = 3 * LastScore(fkw, k)

\* C4 witness: one key is in the semantic list only and another in the keyword
\* list only, both with a non-zero score, and the lists were fused.
C4_Witness ==
    /\ fpc = "done"
    /\ \E k \in KeysOf(fsem) \ KeysOf(fkw) : LastScore(fsem, k) > 0
    /\ \E k \in KeysOf(fkw) \ KeysOf(fsem) : LastScore(fkw, k) > 0

\* C5: a candidate with neither a chunk identifier nor a doc_id is never merged
\* with another candidate: each one has an entry of its own in the untruncated
\* output, with its own text and score and the other constituent score 0.
C5_NoIdNeverMerged ==
    fpc = "done" =>
        /\ \A i \in 1..Len(fsem) :
               HasNoId(fsem[i]) =>
                   \E e \in 1..Len(ranked) :
                       /\ ranked[e].text = fsem[i].text
                       /\ ranked[e].semanticScore = fsem[i].score
                       /\ ranked[e].keywordScore = 0
        /\ \A i \in 1..Len(fkw) :
               HasNoId(fkw[i]) =>
                   \E e \in 1..Len(ranked) :
                       /\ ranked[e].text = fkw[i].text
                       /\ ranked[e].semanticScore = 0
                       /\ ranked[e].keywordScore = fkw[i].score

-----------------------------------------------------------------------------
(* Vocabulary of the request claims. *)

\* A query or keyword string that was not supplied: absent or empty.
Missing(text) == text \in {Undefined, ""}

\* The answer of a backend is a failure: the call rejected (an error or a
\* timeout), the Embedding Service did not report success, or no data came back.
FailedAnswer(ans) ==
    \/ ans.settled = "rejected"
    \/ ans.settled = "fulfilled" /\ ~ans.data.present
    \/ ans.settled = "fulfilled" /\ ans.svc = "embed" /\ ~ans.data.success

Called(st, svc) == \E i \in 1..Len(st.calls) : st.calls[i].svc = svc

AnswerFrom(st, svc) == {i \in 1..Len(st.answers) : st.answers[i].svc = svc}

EmbedFailed(st) == \E i \in AnswerFrom(st, "embed") : FailedAnswer(st.answers[i])

SemanticBranchFailed(st) ==
    \E i \in AnswerFrom(st, "embed") \cup AnswerFrom(st, "vector") :
        FailedAnswer(st.answers[i])

KeywordBranchFailed(st) ==
    \E i \in AnswerFrom(st, "keyword") : FailedAnswer(st.answers[i])

\* The handler answered with one successful response and no error.
Succeeded(st) ==
    st.pc = "done" /\ st.nexts = <<>> /\ Len(st.res) = 1 /\ st.res[1].status = 200

\* The handler ended in an error: a 500 response, or an error given to next.
EndedInError(st) ==
    /\ st.pc = "done"
    /\ \/ st.nexts = <<>> /\ Len(st.res) = 1 /\ st.res[1].status = 500
       \/ st.res = <<>> /\ Len(st.nexts) = 1

\* C6: a search request with neither a semantic query nor a keyword string
\* (hybridSearch with both missing, semanticSearch with the query missing) is
\* answered with a 400 validation error and issues no backend call.
C6_InvalidRejectedBeforeCalls ==
    \A r \in Reqs :
        LET st == reqs[r] IN
        ( \/ st.handler \in HybridHandlers /\ Missing(st.body.query) /\ Missing(st.body.keywords)
          \/ st.handler \in SemanticHandlers /\ Missing(st.body.query) )
        => /\ st.calls = <<>>
           /\ st.pc = "done"
           /\ st.nexts = <<>>
           /\ Len(st.res) = 1
           /\ st.res[1].status = 400

\* C6 witness: a hybrid request with an empty query and an empty keyword
\* string was handled.
C6_Witness ==
    \E r \in Reqs :
        /\ reqs[r].handler = "hybridSearch"
        /\ reqs[r].body.query = "" /\ reqs[r].body.keywords = ""
        /\ reqs[r].pc = "done"

\* C7: in a hybrid request with a query and a keyword string, when the
\* Embedding Service call fails (it errors or times out, or responds with
\* non-success) the semantic list is empty, the Keyword Index Service is still
\* called, and once it has answered the request returns a successful response
\* with the keyword results only.
C7_EmbedFailureKeepsKeywordBranch ==
    \A r \in Reqs :
        LET st == reqs[r] IN
        (st.handler \in HybridHandlers /\ st.body.query = "q" /\ st.body.keywords = "k"
            /\ EmbedFailed(st))
        => /\ st.semanticResults = <<>>
           /\ Called(st, "keyword")
           /\ \A i \in AnswerFrom(st, "keyword") :
                  ~FailedAnswer(st.answers[i]) =>
                      /\ Succeeded(st)
                      /\ \A j \in 1..Len(st.res[1].body.results) :
                             \E c \in 1..Len(st.answers[i].data.results) :
                                 st.res[1].body.results[j].text
                                     = st.answers[i].data.results[c].text

\* C8: in a hybrid request with a query and no keyword string, when the
\* Embedding Service call fails (it errors or times out, or responds with
\* non-success) the request returns a successful response with an empty result
\* set and totalResults = 0, not an error.
C8_EmbedFailureWithoutKeywordsIsEmpty ==
    \A r \in Reqs :
        LET st == reqs[r] IN
        (st.handler \in HybridHandlers /\ st.body.query = "q" /\ Missing(st.body.keywords)
            /\ EmbedFailed(st))
        => /\ Succeeded(st)
           /\ st.res[1].body.results = <<>>
           /\ st.res[1].body.totalResults = 0

\* C9: a hybrid request with a query and a keyword string ends in an error
\* only if both the semantic branch (embedding or vector search) and the
\* keyword branch failed; when exactly one branch failed it still succeeds.
C9_ErrorOnlyIfBothBranchesFail ==
    \A r \in Reqs :
        LET st == reqs[r] IN
        (st.handler \in HybridHandlers /\ st.body.query = "q" /\ st.body.keywords = "k"
            /\ st.pc = "done")
        => /\ EndedInError(st) => (SemanticBranchFailed(st) /\ KeywordBranchFailed(st))
           /\ (SemanticBranchFailed(st) # KeywordBranchFailed(st)) => Succeeded(st)

\* C10: in semanticSearch, when the Embedding Service call fails (it rejects,
\* or responds with non-success) the Vector Index Service is never called and
\* the request ends in an error (a 500 response or next(error)), never in a
\* result list.
C10_SemanticEmbedFailureIsError ==
    \A r \in Reqs :
        LET st == reqs[r] IN
        (st.handler \in SemanticHandlers /\ EmbedFailed(st))
        => /\ ~Called(st, "vector")
           /\ EndedInError(st)

\* C10 witness: a semantic search whose embedding call was answered with
\* success = false has ended.
C10_Witness ==
    \E r \in Reqs :
        /\ reqs[r].handler = "semanticSearch"
        /\ Len(reqs[r].answers) = 1
        /\ reqs[r].answers[1].settled = "fulfilled"
        /\ reqs[r].answers[1].data.present
        /\ ~reqs[r].answers[1].data.success
        /\ reqs[r].pc = "done"

\* C11: a keyword-only search (keyword string present, no semantic query)
\* calls the Keyword Index Service exactly once, with the caller's limit, and
\* returns that service's candidate list unfused: the same candidates in the
\* same order, each with the backend's raw score.
C11_KeywordOnlyUnfused ==
    \A r \in Reqs :
        LET st == reqs[r] IN
        (st.handler \in HybridHandlers /\ Missing(st.body.query) /\ ~Missing(st.body.keywords))
        => /\ Len(st.calls) = 1
           /\ st.calls[1].svc = "keyword"
           /\ st.calls[1].limit = LimitOf(st.body)
           /\ Succeeded(st) =>
                  st.res[1].body.results =
                      FormatResults(st.answers[1].data.results, st.body.keywords)

\* C20: within a search request the Vector Index Service call is issued only
\* after the Embedding Service call of the same request was answered with
\* success: every vector search call has an earlier embedding call whose
\* response has arrived, carries data and reports success.
C20_VectorOnlyAfterEmbedSuccess ==
    \A r \in Reqs :
        LET st == reqs[r] IN
        \A i \in 1..Len(st.calls) :
            st.calls[i].svc = "vector"
            => \E j \in 1..(i - 1) :
                   /\ st.calls[j].svc = "embed"
                   /\ j <= Len(st.answers)
                   /\ st.answers[j].svc = "embed"
                   /\ st.answers[j].settled = "fulfilled"
                   /\ st.answers[j].data.present
                   /\ st.answers[j].data.success

\* C20 witness: a hybrid request has issued its vector search call.
C20_Witness ==
    \E r \in Reqs :
        /\ reqs[r].handler = "hybridSearch"
        /\ Len(reqs[r].calls) >= 2
        /\ reqs[r].calls[2].svc = "vector"

-----------------------------------------------------------------------------
(* Vocabulary of the ingestion claims. *)

SingleIngestion == {"createDocument", "createDocumentEarlier"}
BatchIngestion == {"createDocumentBatch", "createDocumentBatchEarlier", "ingestDocuments"}
IngestionHandlers == SingleIngestion \cup BatchIngestion \cup {"uploadDocument"}

\* The positions of the Document Store calls of a request.
StoreCalls(st) == {i \in 1..Len(st.calls) : st.calls[i].svc = "store"}

\* The request was answered with one 400 response and nothing else happened.
RejectedAsInvalid(st) ==
    /\ st.calls = <<>>
    /\ st.pc = "done"
    /\ st.nexts = <<>>
    /\ Len(st.res) = 1
    /\ st.res[1].status = 400

\* The request was answered with the success response of ingestion.
Created(st) ==
    st.pc = "done" /\ st.nexts = <<>> /\ Len(st.res) = 1 /\ st.res[1].status = 201

\* The identifiers of a success response, as a list.
ReturnedIds(st) ==
    IF st.handler \in BatchIngestion
    THEN st.res[1].body.documentIds
    ELSE <<st.res[1].body.documentId>>

\* The raw documents of an ingestion request that passed validation.
RawDocsOf(st) ==
    IF st.handler \in BatchIngestion THEN st.received.documents.items ELSE <<st.received>>

\* The identifier the caller supplied with a raw document, in the field the
\* handler reads it from; Undefined when the caller supplied none.
SuppliedId(handler, doc) ==
    CASE handler = "createDocument" -> doc.metadata.document_id
      [] handler = "uploadDocument" -> doc.metadata.value.document_id
      [] handler = "createDocumentBatch" -> doc.document_id
      [] handler \in {"createDocumentEarlier", "createDocumentBatchEarlier"} -> doc.documentId
      [] handler = "ingestDocuments" ->
             IF doc.documentId # Undefined THEN doc.documentId ELSE doc.document_id

\* C12: an ingestion request that fails validation (createDocument with absent
\* or empty text; createDocumentBatch or ingestDocuments with a missing,
\* non-array or empty documents array) is answered with a 400 validation error
\* and issues no call to the Document Store.
C12_InvalidIngestionRejected ==
    \A r \in Reqs :
        LET st == reqs[r] IN
        ( \/ st.handler \in SingleIngestion /\ Missing(st.body.text)
          \/ st.handler \in BatchIngestion
               /\ \/ st.body.documents.kind \in {"missing", "nonarray"}
                  \/ st.body.documents.items = <<>> )
        => RejectedAsInvalid(st)

\* C12 witness: a createDocumentBatch request with an empty documents array
\* was handled.
C12_Witness ==
    \E r \in Reqs :
        /\ reqs[r].handler = "createDocumentBatch"
        /\ reqs[r].body.documents.kind = "array"
        /\ reqs[r].body.documents.items = <<>>
        /\ reqs[r].pc = "done"

\* C13: a batch ingestion request in which no document has a non-empty text is
\* rejected wholesale with a validation error before any call to the Document
\* Store.
C13_NoValidDocumentRejected ==
    \A r \in Reqs :
        LET st == reqs[r] IN
        ( /\ st.handler \in BatchIngestion
          /\ st.body.documents.kind = "array"
          /\ \A i \in 1..Len(st.body.documents.items) :
                 Missing(st.body.documents.items[i].text) )
        => RejectedAsInvalid(st)

\* C14: for every accepted ingestion request (single or batch) each document
\* handed to the Document Store has metadata.document_id equal to its
\* document_id, and the identifiers returned to the caller are the
\* document_id values of the outbound batch, in the same number and order.
C14_IdentifierMergedAndReturned ==
    \A r \in Reqs :
        LET st == reqs[r] IN
        st.handler \in IngestionHandlers
        => \A c \in StoreCalls(st) :
               LET documents == st.calls[c].documents IN
               /\ \A i \in 1..Len(documents) :
                      documents[i].metadata.document_id = documents[i].document_id
               /\ Created(st) =>
                      ReturnedIds(st) = [i \in 1..Len(documents) |-> documents[i].document_id]

\* C15: when the caller supplies a document identifier it is used unchanged
\* as the document_id sent to the Document Store and returned to the caller;
\* an identifier is generated only when the caller supplied none.
C15_SuppliedIdentifierKept ==
    \A r \in Reqs :
        LET st == reqs[r] IN
        st.handler \in IngestionHandlers
        => \A c \in StoreCalls(st) :
               LET documents == st.calls[c].documents
                   raw == RawDocsOf(st)
               IN /\ Len(documents) = Len(raw)
                  /\ \A i \in 1..Len(documents) :
                         LET supplied == SuppliedId(st.handler, raw[i]) IN
                         /\ ~Missing(supplied) =>
                                /\ documents[i].document_id = supplied
                                /\ Created(st) => ReturnedIds(st)[i] = supplied
                         /\ documents[i].document_id \in GeneratedIds => Missing(supplied)

\* C15 witness: a createDocumentBatch request of two documents, the first with
\* an identifier of the caller and the second without, was answered 201.
C15_Witness ==
    \E r \in Reqs :
        /\ reqs[r].handler = "createDocumentBatch"
        /\ Created(reqs[r])
        /\ Len(reqs[r].body.documents.items) = 2
        /\ reqs[r].body.documents.items[1].document_id = "y"
        /\ reqs[r].body.documents.items[2].document_id = Undefined

\* C16: on every ingestion path (createDocument, createDocumentBatch,
\* uploadDocument, ingestDocuments) every document handed to the Document
\* Store carries a present, non-empty document identifier, also when the
\* caller supplied none.
C16_EveryDocumentHasIdentifier ==
    \A r \in Reqs :
        LET st == reqs[r] IN
        st.handler \in IngestionHandlers
        => \A c \in StoreCalls(st) :
               \A i \in 1..Len(st.calls[c].documents) :
                   ~Missing(st.calls[c].documents[i].document_id)

\* C17: an ingestion request is answered with the success response (201,
\* success: true, the resolved identifiers) only if the Document Store
\* reported success; when the store responds with success = false the caller
\* receives an error response that carries the store's message when present
\* (ingestDocuments forwards the store's body as it is).
C17_SuccessOnlyIfStoreSucceeded ==
    \A r \in Reqs :
        LET st == reqs[r] IN
        (st.handler \in IngestionHandlers /\ st.pc = "done")
        => \A a \in AnswerFrom(st, "store") :
               LET ans == st.answers[a] IN
               /\ Created(st) =>
                      ans.settled = "fulfilled" /\ ans.data.present /\ ans.data.success
               /\ (ans.settled = "fulfilled" /\ ans.data.present /\ ~ans.data.success)
                  => /\ st.nexts = <<>>
                     /\ Len(st.res) = 1
                     /\ \/ st.handler = "ingestDocuments" /\ st.res[1].body = ans.data
                        \/ /\ st.handler # "ingestDocuments"
                           /\ st.res[1].status >= 400
                           /\ ans.data.message # Undefined =>
                                  st.res[1].body.error = ans.data.message

\* C18: for every single-backend operation (createDocument,
\* createDocumentBatch, getDocument, deleteDocument, listDocuments,
\* getContext, ingestDocuments, semanticSearch), when a backend call rejects
\* with an error, the handler passes exactly that error to next, exactly
\* once, sends no response itself and issues no further call.
C18_RejectionGoesToNextOnce ==
    \A r \in Reqs :
        LET st == reqs[r] IN
        st.handler \in { "createDocument", "createDocumentEarlier", "createDocumentBatch",
                         "createDocumentBatchEarlier", "getDocument", "getDocumentEarlier",
                         "deleteDocument", "listDocuments", "getContext",
                         "ingestDocuments", "semanticSearch", "semanticSearchLater" }
        => \A a \in 1..Len(st.answers) :
               st.answers[a].settled = "rejected"
               => /\ a = Len(st.answers)
                  /\ Len(st.calls) = a
                  /\ st.pc = "done"
                  /\ st.nexts = <<st.answers[a].error>>
                  /\ st.res = <<>>

\* C18 witness: the store call of an ingestDocuments request was rejected.
C18_Witness ==
    \E r \in Reqs :
        /\ reqs[r].handler = "ingestDocuments"
        /\ Len(reqs[r].answers) = 1
        /\ reqs[r].answers[1].settled = "rejected"

-----------------------------------------------------------------------------
(* Vocabulary of the highlighting claims. *)

\* The position of the last character of the word of s that starts at i.
RECURSIVE WordEnd(_, _)
WordEnd(s, i) == IF i < Len(s) /\ ~IsSpace(s[i + 1]) THEN WordEnd(s, i + 1) ELSE i

\* The whitespace-separated words of s, each with its first and last position.
WordsOf(s) ==
    { <<i, WordEnd(s, i)>> : i \in {k \in 1..Len(s) : ~IsSpace(s[k]) /\ (k = 1 \/ IsSpace(s[k - 1]))} }

\* The query tokens of length > 2, in lower case.
KeptTokens(query) ==
    { ToLowerCase(SubSeq(query, w[1], w[2])) : w \in {v \in WordsOf(query) : v[2] - v[1] + 1 > 2} }

\* The text with exactly the words wrapped that equal a token, ignoring case.
RECURSIVE MarkedFrom(_, _, _)
MarkedFrom(text, i, tokens) ==
    IF i > Len(text) THEN <<>>
    ELSE IF IsSpace(text[i]) THEN <<text[i]>> \o MarkedFrom(text, i + 1, tokens)
    ELSE LET j == WordEnd(text, i)
             word == SubSeq(text, i, j)
         IN (IF ToLowerCase(word) \in tokens
             THEN <<MarkOpen>> \o word \o <<MarkClose>>
             ELSE word) \o MarkedFrom(text, j + 1, tokens)

\* C19: for a non-empty query and a non-empty text, highlighting wraps in a
\* marker exactly the whole words of the text that equal, ignoring case, a
\* whitespace-separated query token of length > 2, marks no other position and
\* leaves the other characters unchanged; if the query or the text is empty
\* the text is returned unmodified.  A call that throws returns none of this.
C19_ExactlyMatchingWordsMarked ==
    hpc \in {"done", "thrown"}
    => /\ hpc = "done"
       /\ hout = IF hquery = <<>> \/ htext = <<>>
                 THEN htext
                 ELSE MarkedFrom(htext, 1, KeptTokens(hquery))

-----------------------------------------------------------------------------
(* Vocabulary of the orchestration claims. *)

\* The calls of a request that have not settled yet.
InFlight(st) == Len(st.calls) - Len(st.answers)

Answered(st, svc) == AnswerFrom(st, svc) # {}

\* C21: in a hybrid request (one with a query or a keyword string) fusion is
\* invoked exactly once: never twice, and once by the time the request has
\* ended; it is invoked only after the embedding-then-vector-search chain
\* (when there is a query) and the keyword search (when there is a keyword
\* string) have settled, and no response is produced while a call is in
\* flight.
C21_FusionExactlyOnceAfterBothBranches ==
    \A r \in Reqs :
        LET st == reqs[r] IN
        (st.handler \in HybridHandlers
            /\ ~(Missing(st.received.query) /\ Missing(st.received.keywords)))
        => /\ Len(st.fusions) <= 1
           /\ st.pc = "done" => Len(st.fusions) = 1
           /\ st.res # <<>> => InFlight(st) = 0
           /\ Len(st.fusions) = 1 =>
                  /\ InFlight(st) = 0
                  /\ ~Missing(st.body.query) => Answered(st, "embed")
                  /\ Called(st, "vector") => Answered(st, "vector")
                  /\ ~Missing(st.body.keywords) => Answered(st, "keyword")

\* C22: in hybrid mode the Vector Index Service and the Keyword Index Service
\* are each asked for limit * 2 candidates with the caller's filter passed
\* through unchanged, and fusion is invoked with the caller's limit: a
\* response with results has at most limit of them, the first limit of the
\* ranked list, each with its highlight.
C22_OverFetchAndTruncate ==
    \A r \in Reqs :
        LET st == reqs[r]
            limit == IF st.body.limit = <<>> THEN DefaultLimit ELSE st.body.limit[1]
        IN
        st.handler \in HybridHandlers
        => /\ \A c \in 1..Len(st.calls) :
                  /\ st.calls[c].svc = "vector" =>
                         st.calls[c].k = limit * 2 /\ st.calls[c].filters = st.body.filters
                  /\ st.calls[c].svc = "keyword" =>
                         st.calls[c].limit = limit * 2 /\ st.calls[c].filters = st.body.filters
           /\ \A f \in 1..Len(st.fusions) :
                  /\ st.fusions[f].limit = limit
                  /\ Succeeded(st) =>
                      /\ Len(st.res[1].body.results) <= limit
                      /\ st.res[1].body.results =
                             FormatResults(SubSeq(Ranked(st.fusions[f].semanticResults,
                                                         st.fusions[f].keywordResults),
                                                  1, Len(st.res[1].body.results)),
                                           OrText(st.body.query, st.body.keywords))
                      /\ Len(st.res[1].body.results) =
                             Min(limit, Len(Ranked(st.fusions[f].semanticResults,
                                                   st.fusions[f].keywordResults)))

\* C22 witness: a hybrid request with limit 1 whose two searches answered two
\* candidates each was answered with one result.
C22_Witness ==
    \E r \in Reqs :
        /\ reqs[r].handler = "hybridSearch"
        /\ reqs[r].body.limit = <<1>>
        /\ Len(reqs[r].fusions) = 1
        /\ Len(reqs[r].fusions[1].semanticResults) = 2
        /\ Len(reqs[r].fusions[1].keywordResults) = 2
        /\ Len(reqs[r].res[1].body.results) = 1

\* The backend collaborators of the handlers, by the name of their calls.
Services == {"embed", "vector", "keyword", "store", "document", "delete", "list", "context"}

CallsTo(st, svc) == {c \in 1..Len(st.calls) : st.calls[c].svc = svc}

\* C23: within a request each backend collaborator (Embedding, Vector Index,
\* Keyword Index, Document Store) is called at most once; a call that failed
\* is not issued again.
C23_EachBackendAtMostOnce ==
    \A r \in Reqs :
        \A svc \in Services : Cardinality(CallsTo(reqs[r], svc)) <= 1

\* C23 witness: a semantic search whose embedding call was rejected has ended
\* with that single call.
C23_Witness ==
    \E r \in Reqs :
        /\ reqs[r].handler = "semanticSearch"
        /\ reqs[r].pc = "done"
        /\ Len(reqs[r].calls) = 1
        /\ Len(reqs[r].answers) = 1
        /\ reqs[r].answers[1].settled = "rejected"

\* C24: every search request eventually yields a response (results or an
\* error), also when a backend call never returns.
C24_SearchEventuallyAnswered ==
    \A r \in Reqs :
        (reqs[r].handler \in SemanticHandlers \cup HybridHandlers)
            ~> (reqs[r].pc = "done" /\ Len(reqs[r].res) + Len(reqs[r].nexts) >= 1)

\* C27: every invocation of a handler whose backend calls have all settled has
\* exactly one outcome, one response or one call of next, never both and never
\* neither; while a call is awaited nothing has been sent.
C27_ExactlyOneOutcome ==
    \A r \in Reqs :
        LET st == reqs[r] IN
        /\ st.pc = "done" => Len(st.res) + Len(st.nexts) = 1
        /\ st.pc # "done" => st.res = <<>> /\ st.nexts = <<>>
        /\ (st.handler # "none" /\ InFlight(st) = 0) => st.pc = "done"

\* C27 witness: a createDocumentBatch request was answered 500 after the store
\* reported a failure.
C27_Witness ==
    \E r \in Reqs :
        /\ reqs[r].handler = "createDocumentBatch"
        /\ reqs[r].pc = "done"
        /\ Len(reqs[r].res) = 1
        /\ reqs[r].res[1].status = 500

-----------------------------------------------------------------------------
(* Further fusion claims. *)

\* The position in the list of the last candidate that has the key.
LastWithKey(list, k) ==
    CHOOSE i \in 1..Len(list) :
        /\ IdentityKey(list[i]) = k
        /\ \A j \in (i + 1)..Len(list) : IdentityKey(list[j]) # k

\* C25: the function returns an empty result when both input lists are empty,
\* and an empty result for every limit <= 0, zero and negative, whatever the
\* inputs.
C25_EmptyForEmptyInputsAndNoLimit ==
    fpc = "done" =>
        /\ (fsem = <<>> /\ fkw = <<>>) => fused = <<>>
        /\ flimit <= 0 => fused = <<>>

\* C28: the identity keys of the fused entries are pairwise distinct for all
\* inputs, also when a list holds several candidates of one key; every key of
\* the inputs has its entry, the entry carries the scores of the key's last
\* occurrence in each list (0 for a list without the key), and among entries
\* of equal combined score it stands where the key's first occurrence puts it.
C28_DistinctKeysFirstPositionLastScores ==
    fpc = "done" =>
        /\ \A i, j \in 1..Len(ranked) :
               i # j => IdentityKey(ranked[i]) # IdentityKey(ranked[j])
        /\ KeysOf(ranked) = KeysOf(fsem) \cup KeysOf(fkw)
        /\ \A i \in 1..Len(ranked) :
               LET k == IdentityKey(ranked[i]) IN
               /\ ranked[i].semanticScore =
                      IF k \in KeysOf(fsem) THEN fsem[LastWithKey(fsem, k)].score ELSE 0
               /\ ranked[i].keywordScore =
                      IF k \in KeysOf(fkw) THEN fkw[LastWithKey(fkw, k)].score ELSE 0
        /\ \A i, j \in 1..Len(ranked) :
               (i < j /\ ranked[i].score = ranked[j].score)
               => FirstSeen(IdentityKey(ranked[i])) < FirstSeen(IdentityKey(ranked[j]))
        /\ \A i \in 1..Len(fused) : i <= Len(ranked) /\ fused[i] = ranked[i]

\* C28 witness: the semantic list holds one key twice with different scores,
\* behind a candidate of another key, and the two entries tie.
C28_Witness ==
    /\ fpc = "done"
    /\ Len(fsem) = 3
    /\ IdentityKey(fsem[1]) = IdentityKey(fsem[3])
    /\ IdentityKey(fsem[1]) # IdentityKey(fsem[2])
    /\ fsem[1].score # fsem[3].score
    /\ Len(ranked) = 2
    /\ ranked[1].score = ranked[2].score

\* C29: for a key present in both lists the fused entry has the text, the
\* metadata and the chunk identifier of the semantic candidate, the keyword
\* candidate gives its score only; and the function leaves both input lists
\* and their candidates as they were.
C29_SemanticTextKeptInputsUntouched ==
    /\ [](fpc = "done" =>
            \A k \in KeysOf(fsem) \cap KeysOf(fkw) :
                \A i \in EntriesWithKey(ranked, k) :
                    LET sem == fsem[LastWithKey(fsem, k)] IN
                    /\ ranked[i].text = sem.text
                    /\ ranked[i].metadata = sem.metadata
                    /\ ranked[i].chunk_id = sem.chunk_id
                    /\ ranked[i].keywordScore = fkw[LastWithKey(fkw, k)].score)
    /\ [][fsem' = fsem /\ fkw' = fkw]_vars

\* C29 witness: a key is in both lists, under a chunk identifier in the
\* semantic list and under the doc_id of the metadata in the keyword list, and
\* the lists were fused.
C29_Witness ==
    /\ fpc = "done"
    /\ \E i \in 1..Len(fsem), j \in 1..Len(fkw) :
           /\ IdentityKey(fsem[i]) = IdentityKey(fkw[j])
           /\ fsem[i].metadata # fkw[j].metadata
           /\ fsem[i].text # fkw[j].text

\* C30: when the query is non-empty but none of its whitespace-separated
\* tokens is longer than 2 characters, highlighting returns the text
\* unmodified, with no marker anywhere.
C30_NoKeptTokenNoMarker ==
    (hpc = "done" /\ hquery # <<>> /\ KeptTokens(hquery) = {})
    => /\ hout = htext
       /\ \A i \in 1..Len(hout) : hout[i] \notin {MarkOpen, MarkClose}

-----------------------------------------------------------------------------
(* Two requests at a time. *)

\* The state a search request reaches when it is handled alone and its calls
\* are answered with the given answers, in their order.
RECURSIVE RunAloneFrom(_, _)
RunAloneFrom(st, answers) ==
    IF answers = <<>> THEN st
    ELSE RunAloneFrom(ResumeSearch(st, Head(answers)), Tail(answers))

RunAlone(handler, body, answers) ==
    RunAloneFrom(StartSearch(Arrive(Idle, handler, body)), answers)

\* What a caller and the backends see of a request: the calls issued, the
\* responses sent, the errors given to next, and whether the handler ended.
Observed(st) ==
    [calls |-> st.calls, res |-> st.res, nexts |-> st.nexts, ended |-> st.pc = "done"]


====
